---- MODULE Spec2Model ----
(***************************************************************************)
(* Model of the financial-metrics functions of src/app.py:                 *)
(*   calcular_vpl (NPV), calcular_tir (IRR, Newton then bisection),        *)
(*   calcular_payback_descontado (discounted payback) and the TMA sweep.   *)
(* Real numbers are exact rationals [n, d] in lowest terms with d > 0.     *)
(***************************************************************************)
EXTENDS Integers, Sequences, FiniteSets, TLC

VARIABLES
    fn,          \* which function is executing: "tir", "vpl", "payback", "sweep"
    pc,          \* position inside the executing function
    fluxos,      \* the cash-flow series (argument), a sequence of rationals
    tma,         \* discount-rate argument of calcular_vpl / payback
    max_iter,    \* argument of calcular_tir
    tolerancia,  \* argument of calcular_tir
    taxa,        \* Newton iterate of calcular_tir
    nIter,       \* Newton iterations started
    esquerda,    \* bisection bracket, left end
    direita,     \* bisection bracket, right end
    bIter,       \* bisection iterations started
    t,           \* loop index of calcular_vpl / payback / the sweep
    acumulado,   \* running sum of calcular_vpl / payback
    prevAcc,     \* acumulado_sem_ano at the return of payback
    fluxo_desc,  \* last discounted flow of payback
    vpls_tma,    \* the list built by the TMA sweep
    tma_min,     \* lower slider of the sweep
    tma_max,     \* upper slider of the sweep
    resultado    \* [kind, val]: "pending", "num", "none" (None) or "error"

vars == <<fn, pc, fluxos, tma, max_iter, tolerancia, taxa, nIter, esquerda,
          direita, bIter, t, acumulado, prevAcc, fluxo_desc, vpls_tma,
          tma_min, tma_max, resultado>>

-----------------------------------------------------------------------------
(* Exact rational arithmetic *)

Abs(x) == IF x < 0 THEN -x ELSE x

RECURSIVE GCD(_, _)
GCD(a, b) == IF b = 0 THEN a ELSE GCD(b, a % b)

Rat(n, d) ==
    LET s == IF d < 0 THEN -1 ELSE 1
        g == GCD(Abs(n), Abs(d))
    IN  [n |-> (s * n) \div g, d |-> (s * d) \div g]

RatInt(i) == [n |-> i, d |-> 1]
Zero == RatInt(0)
One == RatInt(1)

RatNeg(a) == [n |-> -a.n, d |-> a.d]
RatAbs(a) == [n |-> Abs(a.n), d |-> a.d]

RatAdd(a, b) ==
    LET g == GCD(a.d, b.d)
    IN  Rat(a.n * (b.d \div g) + b.n * (a.d \div g), (a.d \div g) * b.d)

RatSub(a, b) == RatAdd(a, RatNeg(b))

RatMul(a, b) ==
    LET g1 == GCD(Abs(a.n), b.d)
        g2 == GCD(Abs(b.n), a.d)
    IN  IF a.n = 0 \/ b.n = 0 THEN Zero
        ELSE [n |-> (a.n \div g1) * (b.n \div g2),
              d |-> (a.d \div g2) * (b.d \div g1)]

\* reciprocal; the caller guards b # 0
RatInv(b) == IF b.n < 0 THEN [n |-> -b.d, d |-> -b.n] ELSE [n |-> b.d, d |-> b.n]

RatDiv(a, b) == RatMul(a, RatInv(b))

RECURSIVE RatPow(_, _)
RatPow(x, k) == IF k = 0 THEN One ELSE RatMul(x, RatPow(x, k - 1))

\* a/b < c/d for a, c >= 0 and b, d > 0, by continued-fraction expansion
\* (no cross product, so no intermediate exceeds its operands)
RECURSIVE FracLt(_, _, _, _)
FracLt(a, b, c, d) ==
    LET qa == a \div b
        qc == c \div d
        ra == a % b
        rc == c % d
    IN  IF qa # qc THEN qa < qc
        ELSE IF rc = 0 THEN FALSE
        ELSE IF ra = 0 THEN TRUE
        ELSE FracLt(d, rc, b, ra)

RatLt(a, b) ==
    IF a.n < 0 /\ b.n >= 0 THEN TRUE
    ELSE IF a.n >= 0 /\ b.n <= 0 THEN FALSE
    ELSE IF a.n > 0 THEN FracLt(a.n, a.d, b.n, b.d)
    ELSE FracLt(-b.n, b.d, -a.n, a.d)

RatLe(a, b) == ~RatLt(b, a)

Sign(a) == IF a.n > 0 THEN 1 ELSE IF a.n < 0 THEN -1 ELSE 0

Indices(s) == 1..Len(s)

RECURSIVE SumRat(_, _)
\* sum of f[1..k]
SumRat(f, k) == IF k = 0 THEN Zero ELSE RatAdd(SumRat(f, k - 1), f[k])

-----------------------------------------------------------------------------
(* Result values *)

Pending == [kind |-> "pending", val |-> Zero]
None == [kind |-> "none", val |-> Zero]
Num(x) == [kind |-> "num", val |-> x]
ZeroDivisionError == [kind |-> "error", val |-> Zero]

-----------------------------------------------------------------------------
(* Bounds and input sets *)

MaxLen == 3          \* longest cash-flow series drawn
MaxIterBound == 3    \* largest max_iter drawn

SeqsUpTo(S, n) == UNION {[1..k -> S] : k \in 0..n}

ToRat(s) == [i \in 1..Len(s) |-> RatInt(s[i])]

-----------------------------------------------------------------------------
(* Shared arithmetic of the three functions *)

\* variant: 0 ** 0 taken as 0, so term 0 divides by zero as well
DivZeroTermoZero(rate, k) == RatAdd(One, rate) = Zero /\ k >= 0

\* fc / (1 + rate) ** k raises ZeroDivisionError iff (1 + rate) ** k = 0;
\* Python evaluates 0 ** 0 as 1, so term 0 never raises
DivZero(rate, k) == RatAdd(One, rate) = Zero /\ k >= 1

\* variant: compounding instead of discounting
DescComposto(fc, rate, k) == RatMul(fc, RatPow(RatAdd(One, rate), k))

\* fc / (1 + rate) ** k
Desc(fc, rate, k) == RatDiv(fc, RatPow(RatAdd(One, rate), k))

\* sum([fc / (1 + rate) ** t for t, fc in enumerate(f)]), Python index t = i - 1
RECURSIVE VplAte(_, _, _)
VplAte(f, rate, k) ==
    IF k = 0 THEN Zero
    ELSE RatAdd(VplAte(f, rate, k - 1), Desc(f[k], rate, k - 1))

Vpl(f, rate) == VplAte(f, rate, Len(f))

\* the comprehension raises as soon as one term divides by zero
VplRaises(f, rate) == \E i \in Indices(f) : DivZero(rate, i - 1)

-----------------------------------------------------------------------------
(* calcular_vpl, one term of the comprehension per step *)

FluxoValsVpl == {-100, -5, 0, 10, 60}
TmaValsVpl == {Rat(-1, 1), Rat(-1, 2), Zero, Rat(1, 10), One}

InitVpl ==
    /\ fn = "vpl"
    /\ pc = "loop"
    /\ fluxos \in {ToRat(s) : s \in SeqsUpTo(FluxoValsVpl, MaxLen)}
    /\ tma \in TmaValsVpl
    /\ max_iter = 0 /\ tolerancia = Zero /\ taxa = Zero /\ nIter = 0
    /\ esquerda = Zero /\ direita = Zero /\ bIter = 0
    /\ t = 0 /\ acumulado = Zero /\ prevAcc = Zero /\ fluxo_desc = Zero
    /\ vpls_tma = <<>> /\ tma_min = Zero /\ tma_max = Zero
    /\ resultado = Pending

VplTermo ==
    /\ fn = "vpl" /\ pc = "loop" /\ t < Len(fluxos)
    /\ IF DivZero(tma, t)
       THEN /\ pc' = "raised"
            /\ resultado' = ZeroDivisionError
            /\ UNCHANGED <<t, acumulado>>
       ELSE /\ acumulado' = RatAdd(acumulado, Desc(fluxos[t + 1], tma, t))
            /\ t' = t + 1
            /\ UNCHANGED <<pc, resultado>>
    /\ UNCHANGED <<fn, fluxos, tma, max_iter, tolerancia, taxa, nIter,
                   esquerda, direita, bIter, prevAcc, fluxo_desc, vpls_tma,
                   tma_min, tma_max>>

VplRetorna ==
    /\ fn = "vpl" /\ pc = "loop" /\ t = Len(fluxos)
    /\ pc' = "done"
    /\ resultado' = Num(acumulado)
    /\ UNCHANGED <<fn, fluxos, tma, max_iter, tolerancia, taxa, nIter,
                   esquerda, direita, bIter, t, acumulado, prevAcc,
                   fluxo_desc, vpls_tma, tma_min, tma_max>>

NextVpl == VplTermo \/ VplRetorna

SpecVpl == InitVpl /\ [][NextVpl]_vars

-----------------------------------------------------------------------------
(* calcular_payback_descontado, one loop iteration per step *)

FluxoValsPayback == {-100, -50, 0, 10, 50, 60}
TmaValsPayback == {Rat(-1, 1), Rat(-1, 2), Zero, Rat(1, 10), One}

InitPayback ==
    /\ fn = "payback"
    /\ pc = "loop"
    /\ fluxos \in {ToRat(s) : s \in SeqsUpTo(FluxoValsPayback, MaxLen + 1)}
    /\ tma \in TmaValsPayback
    /\ max_iter = 0 /\ tolerancia = Zero /\ taxa = Zero /\ nIter = 0
    /\ esquerda = Zero /\ direita = Zero /\ bIter = 0
    /\ t = 0 /\ acumulado = Zero /\ prevAcc = Zero /\ fluxo_desc = Zero
    /\ vpls_tma = <<>> /\ tma_min = Zero /\ tma_max = Zero
    /\ resultado = Pending

\* variant: the fraction is added to t instead of t - 1
InterpolaDesdeT(k, sem_ano, fd) ==
    RatAdd(RatInt(k), RatDiv(RatAbs(sem_ano), fd))

\* variant: abs() forgotten
InterpolaSemAbs(k, sem_ano, fd) ==
    RatAdd(RatInt(k - 1), RatDiv(sem_ano, fd))

\* (t - 1) + (abs(acumulado_sem_ano) / fluxo_desc)
Interpola(k, sem_ano, fd) ==
    RatAdd(RatInt(k - 1), RatDiv(RatAbs(sem_ano), fd))

\* variant: the crossing test is strict
RecuperadoEstrito(acc) == RatLt(Zero, acc)

\* if acumulado >= 0
Recuperado(acc) == RatLe(Zero, acc)

PaybackIter ==
    /\ fn = "payback" /\ pc = "loop" /\ t < Len(fluxos)
    /\ IF DivZero(tma, t)
       THEN /\ pc' = "raised"
            /\ resultado' = ZeroDivisionError
            /\ UNCHANGED <<t, acumulado, prevAcc, fluxo_desc>>
       ELSE LET fd == Desc(fluxos[t + 1], tma, t)
                acc == RatAdd(acumulado, fd)
                sem_ano == RatSub(acc, fd)
            IN  /\ fluxo_desc' = fd
                /\ acumulado' = acc
                /\ IF Recuperado(acc)
                   THEN IF t = 0
                        THEN /\ pc' = "done"
                             /\ resultado' = Num(Zero)
                             /\ UNCHANGED <<t, prevAcc>>
                        ELSE /\ prevAcc' = sem_ano
                             /\ UNCHANGED t
                             /\ IF fd = Zero
                                THEN /\ pc' = "raised"
                                     /\ resultado' = ZeroDivisionError
                                ELSE /\ pc' = "done"
                                     /\ resultado' = Num(Interpola(t, sem_ano, fd))
                   ELSE /\ t' = t + 1
                        /\ UNCHANGED <<pc, resultado, prevAcc>>
    /\ UNCHANGED <<fn, fluxos, tma, max_iter, tolerancia, taxa, nIter,
                   esquerda, direita, bIter, vpls_tma, tma_min, tma_max>>

PaybackFim ==
    /\ fn = "payback" /\ pc = "loop" /\ t = Len(fluxos)
    /\ pc' = "done"
    /\ resultado' = None
    /\ UNCHANGED <<fn, fluxos, tma, max_iter, tolerancia, taxa, nIter,
                   esquerda, direita, bIter, t, acumulado, prevAcc,
                   fluxo_desc, vpls_tma, tma_min, tma_max>>

NextPayback == PaybackIter \/ PaybackFim

SpecPayback == InitPayback /\ [][NextPayback]_vars

-----------------------------------------------------------------------------
(* calcular_tir: sign check, Newton phase, bisection phase, final check *)

\* cash-flow series drawn for calcular_tir: same-sign series, series with
\* zeros, series with one and with two sign changes
FluxosTir ==
    { <<>>, <<-100>>, <<100, 50, 60>>, <<-100, -50, -60>>, <<0, 0>>,
      <<-100, 0, 0>>, <<-100, 0>>, <<-5, 0>>, <<0, -5>>, <<0, -20>>,
      <<0, 0, -5>>, <<-20, 11>>, <<-20, 11, 0>>, <<0, -20, 11>>,
      <<0, -5, 3>>, <<-10, 0, 3>>, <<11, 3, -5>>, <<15, 10, -10>>,
      <<-100, 60, 60>>, <<-10, 11>>, <<-20, 20>>, <<-5, 10>>, <<-20, 15>>,
      <<-1, 11>>, <<60, -100>>, <<-20, 20, 11>>, <<-10, 3, 5>> }
Tolerancias == {One, RatInt(2), RatInt(10)}

TaxaInicial == Rat(1, 10)        \* taxa = 0.1
EsquerdaInicial == Rat(-99, 100) \* esquerda = -0.99
DireitaInicial == One            \* direita = 1.0
DerivTolRaiz == 100000           \* 1e-10 = 1 / (DerivTolRaiz * DerivTolRaiz)
Cem == RatInt(100)               \* percentage factor

\* sinais = [1 if f >= 0 else -1 for f in fluxos]
Sinais(f) == [i \in 1..Len(f) |-> IF RatLe(Zero, f[i]) THEN 1 ELSE -1]

RECURSIVE SumInt(_, _)
SumInt(s, k) == IF k = 0 THEN 0 ELSE SumInt(s, k - 1) + s[k]

\* sum(sinais) == len(fluxos) or sum(sinais) == -len(fluxos)
MesmoSinal(f) ==
    LET soma == SumInt(Sinais(f), Len(f))
    IN  soma = Len(f) \/ soma = -Len(f)

\* sum([-t * f / (1 + taxa) ** (t + 1) for t, f in enumerate(fluxos) if t > 0])
RECURSIVE DerivAte(_, _, _)
DerivAte(f, rate, k) ==
    IF k <= 1 THEN Zero
    ELSE RatAdd(DerivAte(f, rate, k - 1),
                Desc(RatMul(RatInt(-(k - 1)), f[k]), rate, k))

VplDerivada(f, rate) == DerivAte(f, rate, Len(f))

\* abs(derivada) < 1e-10, i.e. |n| * 10^10 < d, without forming 10^10
DerivadaPequena(x) ==
    Abs(x.n) <= ((x.d - 1) \div DerivTolRaiz) \div DerivTolRaiz

\* abs(x) < tolerancia
Dentro(x, tol) == RatLt(RatAbs(x), tol)

Meio(a, b) == RatDiv(RatAdd(a, b), RatInt(2))

InitTir ==
    /\ fn = "tir"
    /\ pc = "sinais"
    /\ fluxos \in {ToRat(s) : s \in FluxosTir}
    /\ max_iter \in 0..MaxIterBound
    /\ tolerancia \in Tolerancias
    /\ tma = Zero /\ taxa = Zero /\ nIter = 0
    /\ esquerda = Zero /\ direita = Zero /\ bIter = 0
    /\ t = 0 /\ acumulado = Zero /\ prevAcc = Zero /\ fluxo_desc = Zero
    /\ vpls_tma = <<>> /\ tma_min = Zero /\ tma_max = Zero
    /\ resultado = Pending

TirRest == <<fn, fluxos, tma, max_iter, tolerancia, t, acumulado, prevAcc,
             fluxo_desc, vpls_tma, tma_min, tma_max>>

\* lines 23-25 and 33
TirSinais ==
    /\ fn = "tir" /\ pc = "sinais"
    /\ IF MesmoSinal(fluxos)
       THEN /\ pc' = "done"
            /\ resultado' = None
            /\ UNCHANGED taxa
       ELSE /\ pc' = "newton"
            /\ taxa' = TaxaInicial
            /\ UNCHANGED resultado
    /\ UNCHANGED <<nIter, esquerda, direita, bIter>>
    /\ UNCHANGED TirRest

\* one iteration of the loop of lines 34-43
NewtonIter ==
    /\ fn = "tir" /\ pc = "newton" /\ nIter < max_iter
    /\ nIter' = nIter + 1
    /\ IF VplRaises(fluxos, taxa)
       THEN /\ pc' = "raised"
            /\ resultado' = ZeroDivisionError
            /\ UNCHANGED <<taxa, esquerda, direita>>
       ELSE LET v == Vpl(fluxos, taxa)
                derivada == VplDerivada(fluxos, taxa)
            IN  IF Dentro(v, tolerancia)
                THEN /\ pc' = "done"
                     /\ resultado' = Num(RatMul(taxa, Cem))
                     /\ UNCHANGED <<taxa, esquerda, direita>>
                ELSE IF DerivadaPequena(derivada)
                THEN /\ pc' = "bisect"
                     /\ esquerda' = EsquerdaInicial
                     /\ direita' = DireitaInicial
                     /\ UNCHANGED <<taxa, resultado>>
                ELSE /\ taxa' = RatSub(taxa, RatDiv(v, derivada))
                     /\ UNCHANGED <<pc, resultado, esquerda, direita>>
    /\ UNCHANGED bIter
    /\ UNCHANGED TirRest

\* the for of line 34 runs out; line 45
NewtonFim ==
    /\ fn = "tir" /\ pc = "newton" /\ nIter = max_iter
    /\ pc' = "bisect"
    /\ esquerda' = EsquerdaInicial
    /\ direita' = DireitaInicial
    /\ UNCHANGED <<taxa, nIter, bIter, resultado>>
    /\ UNCHANGED TirRest

\* one iteration of the loop of lines 46-53
BissecaoIter ==
    /\ fn = "tir" /\ pc = "bisect" /\ bIter < max_iter
    /\ bIter' = bIter + 1
    /\ IF RatLt(RatSub(direita, esquerda), tolerancia)
       THEN /\ pc' = "final"
            /\ UNCHANGED <<esquerda, direita, resultado>>
       ELSE LET meio == Meio(esquerda, direita)
            IN  IF VplRaises(fluxos, esquerda) \/ VplRaises(fluxos, meio)
                THEN /\ pc' = "raised"
                     /\ resultado' = ZeroDivisionError
                     /\ UNCHANGED <<esquerda, direita>>
                ELSE \* vpl(esquerda) * vpl(meio) < 0: the sign of the product
                     IF Sign(Vpl(fluxos, esquerda)) * Sign(Vpl(fluxos, meio)) < 0
                     THEN /\ direita' = meio
                          /\ UNCHANGED <<esquerda, pc, resultado>>
                     ELSE /\ esquerda' = meio
                          /\ UNCHANGED <<direita, pc, resultado>>
    /\ UNCHANGED <<taxa, nIter>>
    /\ UNCHANGED TirRest

\* the for of line 46 runs out
BissecaoFim ==
    /\ fn = "tir" /\ pc = "bisect" /\ bIter = max_iter
    /\ pc' = "final"
    /\ UNCHANGED <<taxa, nIter, esquerda, direita, bIter, resultado>>
    /\ UNCHANGED TirRest

\* variant: the candidate is returned without the final tolerance test
TirFinalSemTeste ==
    /\ fn = "tir" /\ pc = "final"
    /\ LET meio == Meio(esquerda, direita)
       IN  /\ pc' = "done"
           /\ resultado' = Num(RatMul(meio, Cem))
    /\ UNCHANGED <<taxa, nIter, esquerda, direita, bIter>>
    /\ UNCHANGED TirRest

\* lines 55-56
TirFinal ==
    /\ fn = "tir" /\ pc = "final"
    /\ LET meio == Meio(esquerda, direita)
       IN  IF VplRaises(fluxos, meio)
           THEN /\ pc' = "raised"
                /\ resultado' = ZeroDivisionError
           ELSE /\ pc' = "done"
                /\ resultado' = IF Dentro(Vpl(fluxos, meio), tolerancia)
                                THEN Num(RatMul(meio, Cem))
                                ELSE None
    /\ UNCHANGED <<taxa, nIter, esquerda, direita, bIter>>
    /\ UNCHANGED TirRest

NextTir ==
    \/ TirSinais
    \/ NewtonIter
    \/ NewtonFim
    \/ BissecaoIter
    \/ BissecaoFim
    \/ TirFinal

SpecTir == InitTir /\ [][NextTir]_vars

-----------------------------------------------------------------------------
(* TMA sensitivity sweep: vpls_tma = [calcular_vpl(f, tma) for tma in
   np.linspace(tma_min, tma_max, 20)], one grid point per step *)

NumPontos == 20
FluxoValsSweep == {-4, 0, 1, 3}
TmaValsSweep == {Rat(-1, 2), Zero, Rat(1, 20), Rat(3, 20), Rat(3, 10)}

\* np.linspace(a, b, num)[i] = a + i * ((b - a) / (num - 1))
Linspace(a, b, num, i) ==
    RatAdd(a, RatMul(RatInt(i), RatDiv(RatSub(b, a), RatInt(num - 1))))

InitSweep ==
    /\ fn = "sweep"
    /\ pc = "loop"
    /\ fluxos \in {ToRat(s) : s \in SeqsUpTo(FluxoValsSweep, MaxLen)}
    /\ tma_min \in TmaValsSweep
    /\ tma_max \in TmaValsSweep
    /\ tma = Zero
    /\ max_iter = 0 /\ tolerancia = Zero /\ taxa = Zero /\ nIter = 0
    /\ esquerda = Zero /\ direita = Zero /\ bIter = 0
    /\ t = 0 /\ acumulado = Zero /\ prevAcc = Zero /\ fluxo_desc = Zero
    /\ vpls_tma = <<>>
    /\ resultado = Pending

SweepIter ==
    /\ fn = "sweep" /\ pc = "loop" /\ t < NumPontos
    /\ LET ponto == Linspace(tma_min, tma_max, NumPontos, t)
       IN  /\ tma' = ponto
           /\ IF VplRaises(fluxos, ponto)
              THEN /\ pc' = "raised"
                   /\ resultado' = ZeroDivisionError
                   /\ UNCHANGED <<t, vpls_tma>>
              ELSE /\ vpls_tma' = Append(vpls_tma, Vpl(fluxos, ponto))
                   /\ t' = t + 1
                   /\ UNCHANGED <<pc, resultado>>
    /\ UNCHANGED <<fn, fluxos, max_iter, tolerancia, taxa, nIter, esquerda,
                   direita, bIter, acumulado, prevAcc, fluxo_desc, tma_min,
                   tma_max>>

SweepFim ==
    /\ fn = "sweep" /\ pc = "loop" /\ t = NumPontos
    /\ pc' = "done"
    /\ UNCHANGED <<fn, fluxos, tma, max_iter, tolerancia, taxa, nIter,
                   esquerda, direita, bIter, t, acumulado, prevAcc,
                   fluxo_desc, vpls_tma, tma_min, tma_max, resultado>>

NextSweep == SweepIter \/ SweepFim

SpecSweep == InitSweep /\ [][NextSweep]_vars

-----------------------------------------------------------------------------
(* Properties of calcular_vpl *)

TmaMenosUm == Rat(-1, 1)

-----------------------------------------------------------------------------
(* Properties of calcular_payback_descontado *)

\* sum_{k <= i} flows[k] / (1 + rate)^k for the Python index i (entry i + 1)
Cumulativo(f, rate, i) == VplAte(f, rate, i + 1)

\* Python indices whose discounted cumulative sum is >= 0
Cruzamentos(f, rate) ==
    {i \in 0..(Len(f) - 1) : RatLe(Zero, Cumulativo(f, rate, i))}

Menor(S) == CHOOSE i \in S : \A j \in S : i <= j

TmaValida == RatLt(TmaMenosUm, tma)

\* C4: for rate > -1 the call returns None exactly when the discounted
\* cumulative sum is negative at every index; otherwise it stops at the
\* smallest index whose cumulative sum is >= 0, returns 0 when that index
\* is 0, and the interpolation of that index otherwise.
C4_PrimeiroCruzamento ==
    (fn = "payback" /\ TmaValida) =>
        /\ pc # "raised"
        /\ pc = "loop" => \A i \in 0..(t - 1) : i \notin Cruzamentos(fluxos, tma)
        /\ pc = "done" =>
            LET X == Cruzamentos(fluxos, tma)
            IN  /\ resultado = None <=> X = {}
                /\ X # {} =>
                    LET i == Menor(X)
                    IN  /\ t = i
                        /\ i = 0 => resultado = Num(Zero)
                        /\ i > 0 => resultado =
                              Num(RatAdd(RatInt(i - 1),
                                  RatDiv(RatAbs(Cumulativo(fluxos, tma, i - 1)),
                                         Desc(fluxos[i + 1], tma, i))))

\* a return at a crossing index >= 2 with entries left unexamined
C4_Witness ==
    /\ fn = "payback" /\ TmaValida /\ pc = "done"
    /\ resultado.kind = "num" /\ t >= 2 /\ t + 1 < Len(fluxos)

Benchmark ==
    /\ fn = "payback" /\ pc = "done"
    /\ fluxos = ToRat(<<-100, 60, 60, 60>>)
    /\ tma = Rat(1, 10)

\* f"{x:.2f}" for a value that is not a tie: round to the nearest hundredth
Arredonda2(x) ==
    LET y == RatAdd(RatMul(x, RatInt(100)), Rat(1, 2))
    IN  Rat(y.n \div y.d, 100)

\* C6 (as stated): the benchmark [-100, 60, 60, 60] at 10% crosses at t = 2
\* and returns 1.95 when rounded to two decimals.
C6_BenchmarkUmNoventaECinco ==
    Benchmark =>
        /\ t = 2
        /\ resultado.kind = "num"
        /\ Arredonda2(resultado.val) = Rat(195, 100)

\* C6 (amended): the benchmark crosses at t = 2 and returns
\* (t - 1) + |cumulative at t - 1| / discounted flow at t = 23/12,
\* which is 1.92 when rounded to two decimals.
C6_BenchmarkUmNoventaEDois ==
    Benchmark =>
        /\ t = 2
        /\ prevAcc = Rat(-500, 11)
        /\ fluxo_desc = Rat(6000, 121)
        /\ resultado = Num(Rat(23, 12))
        /\ Arredonda2(resultado.val) = Rat(192, 100)

C6_Witness == Benchmark /\ resultado.kind = "num"

\* C9: for rate > -1, a return at a crossing index t >= 1 has a strictly
\* negative cumulative sum before period t and a strictly positive
\* discounted flow at t, so the divisor is never 0 and t - 1 < r <= t,
\* with r = t exactly when the cumulative sum at t is 0.
C9_IntervaloDaInterpolacao ==
    (fn = "payback" /\ TmaValida) =>
        /\ resultado.kind # "error"
        /\ (pc = "done" /\ resultado.kind = "num" /\ t >= 1) =>
            /\ RatLt(prevAcc, Zero)
            /\ RatLt(Zero, fluxo_desc)
            /\ RatLt(RatInt(t - 1), resultado.val)
            /\ RatLe(resultado.val, RatInt(t))
            /\ resultado.val = RatInt(t) <=> acumulado = Zero

\* a return exactly at the end of period t: the cumulative sum is 0 there
C9_Witness ==
    /\ fn = "payback" /\ TmaValida /\ pc = "done"
    /\ resultado.kind = "num" /\ t >= 1
    /\ acumulado = Zero /\ resultado.val = RatInt(t)

-----------------------------------------------------------------------------
(* Properties of the TMA sweep *)

\* entry 0 negative, entries 1..n positive, n >= 1
Convencional(f) ==
    /\ Len(f) >= 2
    /\ RatLt(f[1], Zero)
    /\ \A i \in 2..Len(f) : RatLt(Zero, f[i])

\* C7: for a series with a negative entry 0 followed by positive entries,
\* calcular_vpl is strictly decreasing in the rate over rate > -1: the NPVs
\* of an increasing grid (tma_min < tma_max) are strictly decreasing.
C7_VplDecrescente ==
    (fn = "sweep" /\ Convencional(fluxos) /\ RatLt(tma_min, tma_max)
        /\ RatLt(TmaMenosUm, tma_min)) =>
        /\ pc # "raised"
        /\ \A i, j \in 1..Len(vpls_tma) :
               i < j =>
                 /\ RatLt(Linspace(tma_min, tma_max, NumPontos, i - 1),
                          Linspace(tma_min, tma_max, NumPontos, j - 1))
                 /\ RatLt(vpls_tma[j], vpls_tma[i])

\* a full 20-point sweep of a conventional series over 5% .. 15%
C7_Witness ==
    /\ fn = "sweep" /\ pc = "done" /\ Convencional(fluxos)
    /\ tma_min = Rat(1, 20) /\ tma_max = Rat(3, 20)
    /\ Len(vpls_tma) = NumPontos

-----------------------------------------------------------------------------
(* Properties of calcular_tir *)

TemNegativo(f) == \E i \in Indices(f) : RatLt(f[i], Zero)
TemNaoNegativo(f) == \E i \in Indices(f) : RatLe(Zero, f[i])
TodosNaoNegativos(f) == \A i \in Indices(f) : RatLe(Zero, f[i])
TodosNaoPositivos(f) == \A i \in Indices(f) : RatLe(f[i], Zero)

\* C1: for a series with at least one negative and one non-negative entry
\* the call never raises: every rate at which the Newton phase is about to
\* evaluate the NPV differs from -1, and so does every bisection rate.
C1_NuncaLevanta ==
    (fn = "tir" /\ TemNegativo(fluxos) /\ TemNaoNegativo(fluxos)) =>
        /\ pc # "raised"
        /\ (pc = "newton" /\ nIter < max_iter) => taxa # TmaMenosUm
        /\ pc \in {"bisect", "final"} =>
               /\ esquerda # TmaMenosUm
               /\ Meio(esquerda, direita) # TmaMenosUm

\* C2: a series whose entries are all non-negative or all non-positive
\* (zeros allowed on either side) never yields a numeric IRR: the call
\* returns None.
C2_MesmoSinalDevolveNone ==
    (fn = "tir" /\ (TodosNaoNegativos(fluxos) \/ TodosNaoPositivos(fluxos))) =>
        /\ resultado.kind # "num"
        /\ pc = "done" => resultado = None

\* C3: whenever the call returns a number r, the NPV of the series at rate
\* r / 100 is smaller than the tolerance in magnitude.
C3_RaizDentroDaTolerancia ==
    (fn = "tir" /\ resultado.kind = "num") =>
        LET r == RatDiv(resultado.val, RatInt(100))
        IN  /\ pc = "done"
            /\ ~(RatAdd(One, r) = Zero /\ Len(fluxos) >= 2)
            /\ RatLt(RatAbs(Vpl(fluxos, r)), tolerancia)

\* a number returned by the bisection phase after at least one halving
C3_Witness ==
    /\ fn = "tir" /\ pc = "done" /\ resultado.kind = "num"
    /\ bIter >= 1 /\ RatLt(esquerda, direita)
    /\ resultado.val = RatMul(Meio(esquerda, direita), RatInt(100))

\* C8: the call stays within its budget (at most max_iter Newton iterations,
\* then at most max_iter bisection iterations) and, once it has stopped, it
\* has stopped at a return.
C8_TerminaComRetorno ==
    fn = "tir" =>
        /\ nIter <= max_iter
        /\ bIter <= max_iter
        /\ pc \notin {"sinais", "newton", "bisect", "final"} =>
               (pc = "done" /\ resultado.kind \in {"num", "none"})

\* C10: every number returned is a percentage strictly greater than -100.
C10_TaxaMaiorQueMenosCem ==
    (fn = "tir" /\ pc = "done" /\ resultado.kind = "num") =>
        RatLt(RatInt(-100), resultado.val)

====
